---- MODULE Spec2Model ----
(***************************************************************************)
(* zim_to_dir.cpp: one filter thread scans the archive and pushes batches  *)
(* of article indices into ZimData, a bounded queue guarded by one mutex   *)
(* and two condition variables; --threads writer threads pop the batches   *)
(* and write one output file per batch, named by the batch's number, with  *)
(* one length-prefixed record per article; main starts and joins them all. *)
(*                                                                         *)
(* Thread 0 is the filter thread, threads 1..threads are the writers (the  *)
(* id that main passes as i + 1).  The main thread has its own position,   *)
(* mainpc.  A thread's position pc[t] is the source line it is about to    *)
(* execute; inside push_job, pop_job and filtering_finished it is one of   *)
(* the *_lock, *_locked, *_waiting, *_woken, *_notify labels below, and    *)
(* ra[t] is the position the call returns to.                              *)
(***************************************************************************)
EXTENDS Integers, Sequences, FiniteSets, Bags, TLC

(* Bounds of the model. *)
MaxThreads == 2
MaxDocs == 2
MaxEntries == 3
MaxCalls == 6
MaxZeroes == 2
MaxNum == 40

(* The default of --zeroes. *)
DefaultZeroes == 4

VARIABLES
    threads,        \* args["threads"]
    documents,      \* args["documents"]
    archive,        \* the entries of the zim file, in iteration order
    mainpc,         \* position of main
    i,              \* main: loop variable of the writer-starting loop
    joined,         \* main: how many writer threads for_each has joined
    pc,             \* position of the filter thread (0) and the writers
    ra,             \* where the channel call a thread is in returns to
    queue,          \* ZimData::queue
    max_size,       \* ZimData::max_size
    filter_done,    \* ZimData::filter_done
    mutex,          \* ZimData::mutex: the thread holding it, or Free
    data_in_queue,  \* ZimData::data_in_queue: the threads blocked in its wait
    queue_not_full, \* ZimData::queue_not_full: the threads blocked in its wait
    file_data,      \* push_job's parameter, per thread inside push_job
    fd,             \* write_articles_to_files: fd, while it is in scope
    it,             \* filter_articles: the iterator (index of the entry)
    curr_num,       \* filter_articles: curr_num
    index_list,     \* filter_articles: index_list
    pushed,         \* history: the batches appended to the queue, in order
    popped,         \* history: the batches popped, in order
    ends,           \* history: how often pop_job returned the empty job to t
    closes,         \* history: completed calls of filtering_finished
    artifacts,      \* history: the bag of the names of the files created
    asserted,       \* history: the assert(0) of pop_job was executed
    calls,          \* free use of ZimData only: the calls issued so far
    zeroes,         \* args["zeroes"]
    host,           \* the byte order of the machine the program is built for
    blob,           \* write_articles_to_files: blob.size(), as 8 bytes
    out             \* the record of the blob as appended to the output file

vars == <<threads, documents, archive, mainpc, i, joined, pc, ra, queue,
          max_size, filter_done, mutex, data_in_queue, queue_not_full,
          file_data, fd, it, curr_num, index_list, pushed, popped, ends,
          closes, artifacts, asserted, calls, zeroes, host, blob, out>>

inputVars == <<threads, documents, archive>>
mainVars == <<mainpc, i, joined>>
filterVars == <<it, curr_num, index_list>>
histVars == <<pushed, popped, ends, closes, artifacts, asserted>>
ioVars == <<zeroes, host, blob, out>>

Free == -1
FilterThread == 0
Writers == 1..threads
Threads == 0..threads

(* FileData: std::pair<size_t, IndexList>. *)
FileData(num, list) == [first |-> num, second |-> list]

(* A record of an output file: the 4 bytes of the length prefix in file    *)
(* order and the number of content bytes that follow, the latter as the    *)
(* 8 bytes of blob.size(), most significant first.                         *)
Record(prefix, length) == [prefix |-> prefix, length |-> length]
NoRecord == Record(<<>>, <<>>)

(* The job pop_job returns when the filter is done and the queue is empty. *)
EmptyJob == FileData(0, <<>>)

(* An archive entry, as far as filter_articles looks at it. *)
Entry(ns, redirect, deleted, matches) ==
    [namespace |-> ns, redirect |-> redirect, deleted |-> deleted,
     matches |-> matches]

EntryKinds ==
    { Entry("A", FALSE, FALSE, FALSE),
      Entry("A", TRUE, FALSE, FALSE) }

RECURSIVE SeqsUpTo(_, _)
SeqsUpTo(S, n) ==
    IF n = 0 THEN { <<>> }
    ELSE LET shorter == SeqsUpTo(S, n - 1)
         IN  shorter \cup { Append(s, e) : s \in shorter, e \in S }

Archives == SeqsUpTo(EntryKinds, MaxEntries)

(* For the filter on its own: every combination of what the filter looks   *)
(* at as an archive of one entry, and the archives made of a kept entry    *)
(* and of the entries dropped for exactly one reason.                      *)
AllEntryKinds ==
    { Entry(ns, r, d, m) : ns \in { "A", "I" }, r \in BOOLEAN,
                           d \in BOOLEAN, m \in BOOLEAN }

OneReasonKinds ==
    { Entry("A", FALSE, FALSE, FALSE), Entry("I", FALSE, FALSE, FALSE),
      Entry("A", TRUE, FALSE, FALSE), Entry("A", FALSE, TRUE, FALSE),
      Entry("A", FALSE, FALSE, TRUE) }

FilterArchives ==
    SeqsUpTo(OneReasonKinds, MaxEntries) \cup { <<e>> : e \in AllEntryKinds }

(* Variant: a chain without the test of isDeleted. *)
KeptDeleted(e) ==
    IF e.namespace # "A" THEN FALSE
    ELSE IF e.redirect THEN FALSE
    ELSE IF e.matches THEN FALSE
    ELSE TRUE

(* The if / else if chain of filter_articles: TRUE when it reaches the     *)
(* final else.                                                             *)
Kept(e) ==
    IF e.namespace # "A" THEN FALSE
    ELSE IF e.redirect THEN FALSE
    ELSE IF e.deleted THEN FALSE
    ELSE IF e.matches THEN FALSE
    ELSE TRUE

(* Variant: a wait that lets a push through when the queue is full. *)
QueueNotOverfullPred(q, m) == Len(q) <= m

(* The predicate of queue_not_full.wait. *)
QueueNotFullPred(q, m) == Len(q) < m

(* Variant: a wait without a predicate, left on the first evaluation. *)
DataAlwaysPred(q, done) == TRUE

(* Variant: a wait that does not look at filter_done. *)
DataOnlyPred(q, done) == q # <<>>

(* The predicate of data_in_queue.wait. *)
DataInQueuePred(q, done) == q # <<>> \/ done

(* Variants: a front that reads the newest job; a pop that removes none. *)
QueueBack(q) == q[Len(q)]
QueuePopNothing(q) == q

(* std::queue: push, front, pop. *)
QueuePush(q, x) == Append(q, x)
QueueFront(q) == Head(q)
QueuePop(q) == Tail(q)

Init ==
    /\ threads \in 1..MaxThreads
    /\ documents \in 0..MaxDocs
    /\ archive \in Archives
    /\ mainpc = "open"
    /\ i = 0
    /\ joined = 0
    /\ pc = [t \in Threads |-> "not_started"]
    /\ ra = [t \in Threads |-> "none"]
    /\ queue = <<>>
    /\ max_size = 0
    /\ filter_done = FALSE
    /\ mutex = Free
    /\ data_in_queue = {}
    /\ queue_not_full = {}
    /\ file_data = [t \in Threads |-> EmptyJob]
    /\ fd = [t \in Threads |-> EmptyJob]
    /\ it = 0
    /\ curr_num = 0
    /\ index_list = <<>>
    /\ pushed = <<>>
    /\ popped = <<>>
    /\ ends = [t \in Threads |-> 0]
    /\ closes = 0
    /\ artifacts = EmptyBag
    /\ asserted = FALSE
    /\ calls = 0
    /\ zeroes = DefaultZeroes
    /\ host = "little"
    /\ blob = <<>>
    /\ out = NoRecord

(***************************************************************************)
(* ZimData                                                                 *)
(***************************************************************************)

(* ZimData::ZimData(num_threads). *)
ZimDataCtor(num_threads) ==
    /\ max_size' = num_threads
    /\ filter_done' = FALSE
    /\ queue' = <<>>
    /\ mutex' = Free
    /\ data_in_queue' = {}
    /\ queue_not_full' = {}

(* Variant: a notify_one that unblocks no thread. *)
NotifyNone(cv) == { Free }

(* std::condition_variable::notify_one on the wait set cv: the thread it   *)
(* unblocks, any one of the waiting threads, or none (Free) when no thread *)
(* waits.                                                                  *)
NotifyOne(cv) == IF cv = {} THEN { Free } ELSE cv

(* The positions after thread t moved to position at and notify_one woke   *)
(* thread w, which continues inside its wait at position woken.            *)
Resume(t, at, w, woken) ==
    [u \in Threads |-> IF u = t THEN at ELSE IF u = w THEN woken ELSE pc[u]]

(* push_job, std::unique_lock lock(mutex), and the re-locking of the mutex *)
(* when queue_not_full.wait is unblocked.                                  *)
PushLock(t) ==
    /\ t \in Threads
    /\ pc[t] \in { "push_lock", "push_woken" }
    /\ mutex = Free
    /\ mutex' = t
    /\ pc' = [pc EXCEPT ![t] = "push_locked"]
    /\ UNCHANGED <<inputVars, ioVars,
                   mainVars, ra, queue, max_size, filter_done,
                   data_in_queue, queue_not_full, file_data, fd, filterVars,
                   histVars, calls>>

(* push_job, queue_not_full.wait(lock, pred) with the mutex held: blocks   *)
(* (and releases the mutex) while the predicate is false; otherwise        *)
(* queue.push(file_data), and the end of the block releases the mutex.     *)
PushJob(t) ==
    /\ t \in Threads
    /\ pc[t] = "push_locked"
    /\ mutex = t
    /\ IF ~QueueNotFullPred(queue, max_size)
       THEN /\ queue_not_full' = queue_not_full \cup { t }
            /\ pc' = [pc EXCEPT ![t] = "push_waiting"]
            /\ UNCHANGED <<queue, pushed>>
       ELSE /\ queue' = QueuePush(queue, file_data[t])
            /\ pushed' = Append(pushed, file_data[t])
            /\ pc' = [pc EXCEPT ![t] = "push_notify"]
            /\ UNCHANGED queue_not_full
    /\ mutex' = Free
    /\ UNCHANGED <<inputVars, ioVars, mainVars, ra, max_size, filter_done,
                   data_in_queue, file_data, fd, filterVars, popped, ends,
                   closes, artifacts, asserted, calls>>

(* push_job, data_in_queue.notify_one() after the block, then return (the *)
(* parameter file_data ends with the call).                                *)
PushNotify(t) ==
    /\ t \in Threads
    /\ pc[t] = "push_notify"
    /\ \E w \in NotifyOne(data_in_queue) :
          /\ data_in_queue' = data_in_queue \ { w }
          /\ pc' = Resume(t, ra[t], w, "pop_woken")
    /\ file_data' = [file_data EXCEPT ![t] = EmptyJob]
    /\ UNCHANGED <<inputVars, ioVars,
                   mainVars, ra, queue, max_size, filter_done,
                   mutex, queue_not_full, fd, filterVars, histVars, calls>>

(* pop_job, std::unique_lock lock(mutex), and the re-locking of the mutex  *)
(* when data_in_queue.wait is unblocked.                                   *)
PopLock(t) ==
    /\ t \in Threads
    /\ pc[t] \in { "pop_lock", "pop_woken" }
    /\ mutex = Free
    /\ mutex' = t
    /\ pc' = [pc EXCEPT ![t] = "pop_locked"]
    /\ UNCHANGED <<inputVars, ioVars,
                   mainVars, ra, queue, max_size, filter_done,
                   data_in_queue, queue_not_full, file_data, fd, filterVars,
                   histVars, calls>>

(* pop_job, from data_in_queue.wait(lock, pred) with the mutex held to the *)
(* return: blocks (and releases the mutex) while the predicate is false;   *)
(* otherwise takes the front job and notifies queue_not_full, or, with the *)
(* queue empty and filter_done set, notifies data_in_queue and returns the *)
(* empty job, or runs into assert(0).  Every return releases the mutex.    *)
PopJob(t) ==
    /\ t \in Threads
    /\ pc[t] = "pop_locked"
    /\ mutex = t
    /\ IF ~DataInQueuePred(queue, filter_done)
       THEN /\ data_in_queue' = data_in_queue \cup { t }
            /\ pc' = [pc EXCEPT ![t] = "pop_waiting"]
            /\ UNCHANGED <<queue, queue_not_full, fd, popped, ends, asserted>>
       ELSE IF queue # <<>>
       THEN /\ fd' = [fd EXCEPT ![t] = QueueFront(queue)]
            /\ queue' = QueuePop(queue)
            /\ popped' = Append(popped, QueueFront(queue))
            /\ \E w \in NotifyOne(queue_not_full) :
                  /\ queue_not_full' = queue_not_full \ { w }
                  /\ pc' = Resume(t, ra[t], w, "push_woken")
            /\ UNCHANGED <<data_in_queue, ends, asserted>>
       ELSE IF filter_done
       THEN /\ \E w \in NotifyOne(data_in_queue) :
                  /\ data_in_queue' = data_in_queue \ { w }
                  /\ pc' = Resume(t, ra[t], w, "pop_woken")
            /\ fd' = [fd EXCEPT ![t] = EmptyJob]
            /\ ends' = [ends EXCEPT ![t] = @ + 1]
            /\ UNCHANGED <<queue, queue_not_full, popped, asserted>>
       ELSE /\ asserted' = TRUE
            /\ pc' = [pc EXCEPT ![t] = "aborted"]
            /\ UNCHANGED <<queue, data_in_queue, queue_not_full, fd, popped,
                           ends>>
    /\ mutex' = Free
    /\ UNCHANGED <<inputVars, ioVars,
                   mainVars, ra, max_size, filter_done, file_data,
                   filterVars, pushed, closes, artifacts, calls>>

(* filtering_finished, std::lock_guard guard(mutex). *)
FinishLock(t) ==
    /\ t \in Threads
    /\ pc[t] = "finish_lock"
    /\ mutex = Free
    /\ mutex' = t
    /\ pc' = [pc EXCEPT ![t] = "finish_locked"]
    /\ UNCHANGED <<inputVars, ioVars,
                   mainVars, ra, queue, max_size, filter_done,
                   data_in_queue, queue_not_full, file_data, fd, filterVars,
                   histVars, calls>>

(* Variant: a filtering_finished that flips filter_done. *)
FilteringFinishedFlips(t) ==
    /\ t \in Threads
    /\ pc[t] = "finish_locked"
    /\ mutex = t
    /\ filter_done' = ~filter_done
    /\ closes' = closes + 1
    /\ mutex' = Free
    /\ pc' = [pc EXCEPT ![t] = ra[t]]
    /\ UNCHANGED <<inputVars, ioVars, mainVars, ra, queue, max_size,
                   data_in_queue, queue_not_full, file_data, fd, filterVars,
                   pushed, popped, ends, artifacts, asserted, calls>>

(* filtering_finished, filter_done = true; the return releases the mutex.  *)
(* No condition variable is notified.                                      *)
FilteringFinished(t) ==
    /\ t \in Threads
    /\ pc[t] = "finish_locked"
    /\ mutex = t
    /\ filter_done' = TRUE
    /\ closes' = closes + 1
    /\ mutex' = Free
    /\ pc' = [pc EXCEPT ![t] = ra[t]]
    /\ UNCHANGED <<inputVars, ioVars,
                   mainVars, ra, queue, max_size, data_in_queue,
                   queue_not_full, file_data, fd, filterVars, pushed, popped,
                   ends, artifacts, asserted, calls>>

(* A wait on a condition variable may be unblocked spuriously; the thread  *)
(* then re-locks the mutex and evaluates its predicate again.              *)
SpuriousWakeup(t) ==
    /\ t \in Threads
    /\ \/ /\ t \in data_in_queue
          /\ data_in_queue' = data_in_queue \ { t }
          /\ pc' = [pc EXCEPT ![t] = "pop_woken"]
          /\ UNCHANGED queue_not_full
       \/ /\ t \in queue_not_full
          /\ queue_not_full' = queue_not_full \ { t }
          /\ pc' = [pc EXCEPT ![t] = "push_woken"]
          /\ UNCHANGED data_in_queue
    /\ UNCHANGED <<inputVars, ioVars,
                   mainVars, ra, queue, max_size, filter_done,
                   mutex, file_data, fd, filterVars, histVars, calls>>

(***************************************************************************)
(* filter_articles                                                         *)
(***************************************************************************)

(* Variant: a batch is handed over one index late. *)
BatchOverfull(list, docs) == Len(list) = docs + 1

(* index_list.size() == documents, after the push_back. *)
BatchFull(list, docs) == Len(list) = docs

(* Variant: curr_num is not incremented. *)
NextNumSame(num) == num

(* curr_num++: the value curr_num holds after the push of a full batch. *)
NextNum(num) == num + 1

(* The head of filter_articles: the logger and the local variables. *)
FilterBegin ==
    /\ pc[FilterThread] = "begin"
    /\ curr_num' = 1
    /\ index_list' = <<>>
    /\ it' = 0
    /\ pc' = [pc EXCEPT ![FilterThread] = "loop"]
    /\ UNCHANGED <<inputVars, ioVars,
                   mainVars, ra, queue, max_size, filter_done,
                   mutex, data_in_queue, queue_not_full, file_data, fd,
                   histVars, calls>>

(* One test of the for loop and, inside it, one entry: a dropped entry is  *)
(* only logged; a kept entry's index is appended to index_list and a full  *)
(* list is handed to push_job with curr_num, which is then incremented.    *)
(* The index of an entry is its position in the iteration, from 0.         *)
FilterLoop ==
    /\ pc[FilterThread] = "loop"
    /\ IF it = Len(archive)
       THEN /\ pc' = [pc EXCEPT ![FilterThread] = "rest"]
            /\ UNCHANGED <<it, index_list, curr_num, file_data, ra>>
       ELSE IF ~Kept(archive[it + 1])
       THEN /\ it' = it + 1
            /\ UNCHANGED <<pc, index_list, curr_num, file_data, ra>>
       ELSE IF BatchFull(Append(index_list, it), documents)
       THEN /\ index_list' = Append(index_list, it)
            /\ file_data' = [file_data EXCEPT ![FilterThread] =
                                FileData(curr_num, Append(index_list, it))]
            /\ curr_num' = NextNum(curr_num)
            /\ ra' = [ra EXCEPT ![FilterThread] = "reset"]
            /\ pc' = [pc EXCEPT ![FilterThread] = "push_lock"]
            /\ UNCHANGED it
       ELSE /\ index_list' = Append(index_list, it)
            /\ it' = it + 1
            /\ UNCHANGED <<pc, curr_num, file_data, ra>>
    /\ UNCHANGED <<inputVars, ioVars,
                   mainVars, queue, max_size, filter_done, mutex,
                   data_in_queue, queue_not_full, fd, histVars, calls>>

(* After push_job returned inside the loop: index_list = IndexList(), and  *)
(* the loop's ++it.                                                        *)
FilterReset ==
    /\ pc[FilterThread] = "reset"
    /\ index_list' = <<>>
    /\ it' = it + 1
    /\ pc' = [pc EXCEPT ![FilterThread] = "loop"]
    /\ UNCHANGED <<inputVars, ioVars,
                   mainVars, ra, queue, max_size, filter_done,
                   mutex, data_in_queue, queue_not_full, file_data, fd,
                   curr_num, histVars, calls>>

(* Variant: the rest is not pushed before filtering_finished is called. *)
FilterRestDropped ==
    /\ pc[FilterThread] = "rest"
    /\ ra' = [ra EXCEPT ![FilterThread] = "report"]
    /\ pc' = [pc EXCEPT ![FilterThread] = "finish_lock"]
    /\ UNCHANGED <<inputVars, ioVars,
                   mainVars, queue, max_size, filter_done, mutex,
                   data_in_queue, queue_not_full, file_data, fd, filterVars,
                   histVars, calls>>

(* Variant: the rest is pushed without the test of index_list.empty(). *)
FilterRestAlways ==
    /\ pc[FilterThread] = "rest"
    /\ file_data' = [file_data EXCEPT ![FilterThread] =
                        FileData(curr_num, index_list)]
    /\ ra' = [ra EXCEPT ![FilterThread] = "finish"]
    /\ pc' = [pc EXCEPT ![FilterThread] = "push_lock"]
    /\ UNCHANGED <<inputVars, ioVars, mainVars, queue, max_size, filter_done,
                   mutex, data_in_queue, queue_not_full, fd, filterVars,
                   histVars, calls>>

(* Variant: filter_done is set before the rest is pushed. *)
FilterRestAfterClose ==
    /\ pc[FilterThread] = "rest"
    /\ filter_done' = TRUE
    /\ closes' = closes + 1
    /\ IF index_list # <<>>
       THEN /\ file_data' = [file_data EXCEPT ![FilterThread] =
                                FileData(curr_num, index_list)]
            /\ ra' = [ra EXCEPT ![FilterThread] = "report"]
            /\ pc' = [pc EXCEPT ![FilterThread] = "push_lock"]
       ELSE /\ pc' = [pc EXCEPT ![FilterThread] = "report"]
            /\ UNCHANGED <<file_data, ra>>
    /\ UNCHANGED <<inputVars, ioVars, mainVars, queue, max_size, mutex,
                   data_in_queue, queue_not_full, fd, filterVars, pushed,
                   popped, ends, artifacts, asserted, calls>>

(* "Write the rest": a non-empty index_list is handed to push_job with     *)
(* curr_num; otherwise filtering_finished is called right away.            *)
FilterRest ==
    /\ pc[FilterThread] = "rest"
    /\ IF index_list # <<>>
       THEN /\ file_data' = [file_data EXCEPT ![FilterThread] =
                                FileData(curr_num, index_list)]
            /\ ra' = [ra EXCEPT ![FilterThread] = "finish"]
            /\ pc' = [pc EXCEPT ![FilterThread] = "push_lock"]
       ELSE /\ ra' = [ra EXCEPT ![FilterThread] = "report"]
            /\ pc' = [pc EXCEPT ![FilterThread] = "finish_lock"]
            /\ UNCHANGED file_data
    /\ UNCHANGED <<inputVars, ioVars,
                   mainVars, queue, max_size, filter_done, mutex,
                   data_in_queue, queue_not_full, fd, filterVars, histVars,
                   calls>>

(* The call of filtering_finished after the rest was pushed. *)
FilterFinish ==
    /\ pc[FilterThread] = "finish"
    /\ ra' = [ra EXCEPT ![FilterThread] = "report"]
    /\ pc' = [pc EXCEPT ![FilterThread] = "finish_lock"]
    /\ UNCHANGED <<inputVars, ioVars,
                   mainVars, queue, max_size, filter_done, mutex,
                   data_in_queue, queue_not_full, file_data, fd, filterVars,
                   histVars, calls>>

(* The closing log line; the thread function returns. *)
FilterReport ==
    /\ pc[FilterThread] = "report"
    /\ pc' = [pc EXCEPT ![FilterThread] = "done"]
    /\ UNCHANGED <<inputVars, ioVars,
                   mainVars, ra, queue, max_size, filter_done,
                   mutex, data_in_queue, queue_not_full, file_data, fd,
                   filterVars, histVars, calls>>

(***************************************************************************)
(* write_articles_to_files                                                 *)
(***************************************************************************)

(* The head of write_articles_to_files and, in the loop, the first call of *)
(* pop_job.                                                                *)
WriterPop(w) ==
    /\ w \in Writers
    /\ pc[w] = "begin"
    /\ ra' = [ra EXCEPT ![w] = "check"]
    /\ pc' = [pc EXCEPT ![w] = "pop_lock"]
    /\ UNCHANGED <<inputVars, ioVars,
                   mainVars, queue, max_size, filter_done, mutex,
                   data_in_queue, queue_not_full, file_data, fd, filterVars,
                   histVars, calls>>

(* A string is the sequence of its characters; the extension is kept as    *)
(* one element.                                                            *)
DigitChars == <<"0", "1", "2", "3", "4", "5", "6", "7", "8", "9">>
Extension == <<".htmls.gz">>

(* std::to_string(fd.first): the decimal digits, most significant first. *)
RECURSIVE to_string(_)
to_string(n) ==
    IF n < 10 THEN <<DigitChars[n + 1]>>
    ELSE Append(to_string(n \div 10), DigitChars[(n % 10) + 1])

(* a - b in size_t.  When b > a the difference wraps around to 2^64 minus  *)
(* (b - a); that value is kept as the borrow and the distance below 2^64.  *)
SizeSub(a, b) ==
    IF a >= b THEN [borrow |-> FALSE, value |-> a - b]
    ELSE [borrow |-> TRUE, value |-> b - a]

(* std::string(count, '0') throws std::length_error when count exceeds     *)
(* max_size(), which every wrapped count of SizeSub does.                  *)
FillThrows(count) == count.borrow
Fill(count) == [k \in 1..count.value |-> "0"]

(* std::string(zeroes - num.length(), '0') + num + ".htmls.gz" *)
FileNameThrows(first, z) == FillThrows(SizeSub(z, Len(to_string(first))))
FileName(first, z) ==
    Fill(SizeSub(z, Len(to_string(first)))) \o to_string(first) \o Extension

(* if (fd.second.empty()) break; otherwise the name of the output file is  *)
(* computed from fd.first, the file is created and the articles of         *)
(* fd.second are written to it (WriteRecord is the step for one article);  *)
(* fd ends with the iteration and the loop calls pop_job again.  An        *)
(* exception of the name computation leaves the thread's function, which   *)
(* ends the process by std::terminate.                                     *)
WriterWrite(w) ==
    /\ w \in Writers
    /\ pc[w] = "check"
    /\ IF fd[w].second = <<>>
       THEN /\ pc' = [pc EXCEPT ![w] = "done"]
            /\ UNCHANGED <<artifacts, mainpc>>
       ELSE IF FileNameThrows(fd[w].first, zeroes)
       THEN /\ pc' = [t \in Threads |-> "terminated"]
            /\ mainpc' = "terminated"
            /\ UNCHANGED artifacts
       ELSE /\ artifacts' =
                   artifacts (+) SetToBag({ FileName(fd[w].first, zeroes) })
            /\ pc' = [pc EXCEPT ![w] = "pop_lock"]
            /\ UNCHANGED mainpc
    /\ fd' = [fd EXCEPT ![w] = EmptyJob]
    /\ UNCHANGED <<inputVars, ioVars, i, joined, ra, queue, max_size,
                   filter_done, mutex, data_in_queue, queue_not_full,
                   file_data, filterVars, pushed, popped, ends, closes,
                   asserted, calls>>

(* Unsigned integers are the sequences of their bytes, most significant    *)
(* first: blob.size() has 8 bytes, uint32_t has 4.                         *)
SizeBytes == 8
Uint32Bytes == 4
ByteSamples == { 0, 1, 255 }
BlobSizes == [1..SizeBytes -> ByteSamples]

Reverse(s) == [k \in 1..Len(s) |-> s[Len(s) + 1 - k]]

(* static_cast<uint32_t>(v): the low-order 4 bytes of v. *)
Uint32Cast(v) == SubSeq(v, Len(v) - Uint32Bytes + 1, Len(v))

(* htonl(v): the bytes of v swapped on a little-endian host, v itself on a *)
(* big-endian one.                                                         *)
htonl(h, v) == IF h = "little" THEN Reverse(v) ELSE v

(* reinterpret_cast<char*>(&v): the bytes of v in the order of their       *)
(* addresses, least significant first on a little-endian host.             *)
ObjectBytes(h, v) == IF h = "little" THEN Reverse(v) ELSE v

(* One iteration of the for loop over fd.second: blob is the size of the   *)
(* article's data; the 4 bytes of size and then blob.size() bytes of data  *)
(* are written to the file.                                                *)
WriteRecord(w) ==
    /\ w \in Writers
    /\ pc[w] = "record"
    /\ out' = Record(ObjectBytes(host, htonl(host, Uint32Cast(blob))), blob)
    /\ pc' = [pc EXCEPT ![w] = "next_record"]
    /\ UNCHANGED <<inputVars, zeroes, host, blob, mainVars, ra, queue,
                   max_size, filter_done, mutex, data_in_queue,
                   queue_not_full, file_data, fd, filterVars, histVars,
                   calls>>

(***************************************************************************)
(* main                                                                    *)
(***************************************************************************)

(* zim::File f(input-file): opens the archive, or throws. *)
MainOpen ==
    /\ mainpc = "open"
    /\ \E ok \in BOOLEAN : mainpc' = IF ok THEN "construct" ELSE "failed"
    /\ UNCHANGED <<inputVars, ioVars,
                   i, joined, pc, ra, queue, max_size, filter_done,
                   mutex, data_in_queue, queue_not_full, file_data, fd,
                   filterVars, histVars, calls>>

(* Variant: the output directory is created when the filter thread has     *)
(* already been started.                                                   *)
MainConstructLate ==
    /\ mainpc = "construct"
    /\ ZimDataCtor(threads)
    /\ \E ok \in BOOLEAN :
          /\ mainpc' = IF ok THEN "start_filter" ELSE "failed"
          /\ pc' = IF ok THEN pc ELSE [pc EXCEPT ![FilterThread] = "begin"]
    /\ UNCHANGED <<inputVars, ioVars, i, joined, ra, file_data, fd,
                   filterVars, histVars, calls>>

(* ZimData zim_data(threads); fs::create_directory(output-dir), or throws. *)
MainConstruct ==
    /\ mainpc = "construct"
    /\ ZimDataCtor(threads)
    /\ \E ok \in BOOLEAN : mainpc' = IF ok THEN "start_filter" ELSE "failed"
    /\ UNCHANGED <<inputVars, ioVars,
                   i, joined, pc, ra, file_data, fd, filterVars,
                   histVars, calls>>

(* std::thread filter_thread(filter_articles, ...). *)
MainStartFilter ==
    /\ mainpc = "start_filter"
    /\ pc' = [pc EXCEPT ![FilterThread] = "begin"]
    /\ i' = 0
    /\ mainpc' = "start_writers"
    /\ UNCHANGED <<inputVars, ioVars,
                   joined, ra, queue, max_size, filter_done, mutex,
                   data_in_queue, queue_not_full, file_data, fd, filterVars,
                   histVars, calls>>

(* for (i = 0; i < threads; ++i) writer_threads.emplace(..., i + 1, ...). *)
MainStartWriter ==
    /\ mainpc = "start_writers"
    /\ IF i < threads
       THEN /\ pc' = [pc EXCEPT ![i + 1] = "begin"]
            /\ i' = i + 1
            /\ UNCHANGED mainpc
       ELSE /\ mainpc' = "join_filter"
            /\ UNCHANGED <<pc, i>>
    /\ UNCHANGED <<inputVars, ioVars,
                   joined, ra, queue, max_size, filter_done, mutex,
                   data_in_queue, queue_not_full, file_data, fd, filterVars,
                   histVars, calls>>

(* filter_thread.join(): returns when the filter thread has ended. *)
MainJoinFilter ==
    /\ mainpc = "join_filter"
    /\ pc[FilterThread] = "done"
    /\ mainpc' = "join_writers"
    /\ joined' = 0
    /\ UNCHANGED <<inputVars, ioVars,
                   i, pc, ra, queue, max_size, filter_done, mutex,
                   data_in_queue, queue_not_full, file_data, fd, filterVars,
                   histVars, calls>>

(* std::for_each(writer_threads, join): joins the writers in the order     *)
(* they were started, each join returning when that thread has ended.      *)
MainJoinWriter ==
    /\ mainpc = "join_writers"
    /\ IF joined < threads
       THEN /\ pc[joined + 1] = "done"
            /\ joined' = joined + 1
            /\ UNCHANGED mainpc
       ELSE /\ mainpc' = "done"
            /\ UNCHANGED joined
    /\ UNCHANGED <<inputVars, ioVars,
                   i, pc, ra, queue, max_size, filter_done, mutex,
                   data_in_queue, queue_not_full, file_data, fd, filterVars,
                   histVars, calls>>

(***************************************************************************)
(* The program                                                             *)
(***************************************************************************)

Main ==
    \/ MainOpen
    \/ MainConstruct
    \/ MainStartFilter
    \/ MainStartWriter
    \/ MainJoinFilter
    \/ MainJoinWriter

Filter ==
    \/ FilterBegin
    \/ FilterLoop
    \/ FilterReset
    \/ FilterRest
    \/ FilterFinish
    \/ FilterReport
    \/ PushLock(FilterThread)
    \/ PushJob(FilterThread)
    \/ PushNotify(FilterThread)
    \/ FinishLock(FilterThread)
    \/ FilteringFinished(FilterThread)

Writer(w) ==
    \/ WriterPop(w)
    \/ WriterWrite(w)
    \/ PopLock(w)
    \/ PopJob(w)

(* The steps the threads take by themselves. *)
Run == Main \/ Filter \/ \E w \in 1..MaxThreads : Writer(w)

Next == Run \/ \E t \in 0..MaxThreads : SpuriousWakeup(t)

Spec == Init /\ [][Next]_vars

(* Every thread that can take a step eventually takes one; no wait is      *)
(* unblocked spuriously.                                                   *)
FairSpec ==
    /\ Init
    /\ [][Run]_vars
    /\ WF_vars(Main)
    /\ WF_vars(Filter)
    /\ \A w \in 1..MaxThreads : WF_vars(Writer(w))

(* The program with one writer, on the archives of FilterArchives. *)
FilterInit ==
    /\ threads = 1
    /\ documents \in 0..MaxDocs
    /\ archive \in FilterArchives
    /\ mainpc = "open"
    /\ i = 0
    /\ joined = 0
    /\ pc = [t \in Threads |-> "not_started"]
    /\ ra = [t \in Threads |-> "none"]
    /\ queue = <<>>
    /\ max_size = 0
    /\ filter_done = FALSE
    /\ mutex = Free
    /\ data_in_queue = {}
    /\ queue_not_full = {}
    /\ file_data = [t \in Threads |-> EmptyJob]
    /\ fd = [t \in Threads |-> EmptyJob]
    /\ it = 0
    /\ curr_num = 0
    /\ index_list = <<>>
    /\ pushed = <<>>
    /\ popped = <<>>
    /\ ends = [t \in Threads |-> 0]
    /\ closes = 0
    /\ artifacts = EmptyBag
    /\ asserted = FALSE
    /\ calls = 0
    /\ zeroes = DefaultZeroes
    /\ host = "little"
    /\ blob = <<>>
    /\ out = NoRecord

FilterSpec == FilterInit /\ [][Next]_vars

(* One iteration of a writer's loop on its own: the single writer of the   *)
(* program has just popped a job of any number, under any --zeroes.        *)
NameInit ==
    /\ threads = 1
    /\ documents = 1
    /\ archive = <<Entry("A", FALSE, FALSE, FALSE)>>
    /\ mainpc = "join_filter"
    /\ i = 1
    /\ joined = 0
    /\ pc = [t \in Threads |-> IF t = FilterThread THEN "reset" ELSE "check"]
    /\ ra = [t \in Threads |-> "none"]
    /\ queue = <<>>
    /\ max_size = 1
    /\ filter_done = FALSE
    /\ mutex = Free
    /\ data_in_queue = {}
    /\ queue_not_full = {}
    /\ file_data = [t \in Threads |-> EmptyJob]
    /\ \E first \in 1..MaxNum :
           /\ fd = [t \in Threads |-> IF t = FilterThread THEN EmptyJob
                                      ELSE FileData(first, <<0>>)]
           /\ pushed = <<FileData(first, <<0>>)>>
           /\ popped = <<FileData(first, <<0>>)>>
           /\ curr_num = first + 1
    /\ it = 0
    /\ index_list = <<0>>
    /\ ends = [t \in Threads |-> 0]
    /\ closes = 0
    /\ artifacts = EmptyBag
    /\ asserted = FALSE
    /\ calls = 0
    /\ zeroes \in 0..MaxZeroes
    /\ host = "little"
    /\ blob = <<>>
    /\ out = NoRecord

NameNext == WriterWrite(1)

NameSpec == NameInit /\ [][NameNext]_vars

(* One iteration of the for loop of a writer on its own: the single writer *)
(* has popped the first job and has got the data of its article, of any    *)
(* size, on a host of either byte order.                                   *)
RecordInit ==
    /\ threads = 1
    /\ documents = 1
    /\ archive = <<Entry("A", FALSE, FALSE, FALSE)>>
    /\ mainpc = "join_filter"
    /\ i = 1
    /\ joined = 0
    /\ pc = [t \in Threads |-> IF t = FilterThread THEN "reset" ELSE "record"]
    /\ ra = [t \in Threads |-> "none"]
    /\ queue = <<>>
    /\ max_size = 1
    /\ filter_done = FALSE
    /\ mutex = Free
    /\ data_in_queue = {}
    /\ queue_not_full = {}
    /\ file_data = [t \in Threads |-> EmptyJob]
    /\ fd = [t \in Threads |-> IF t = FilterThread THEN EmptyJob
                               ELSE FileData(1, <<0>>)]
    /\ it = 0
    /\ curr_num = 2
    /\ index_list = <<0>>
    /\ pushed = <<FileData(1, <<0>>)>>
    /\ popped = <<FileData(1, <<0>>)>>
    /\ ends = [t \in Threads |-> 0]
    /\ closes = 0
    /\ artifacts = SetToBag({ FileName(1, DefaultZeroes) })
    /\ asserted = FALSE
    /\ calls = 0
    /\ zeroes = DefaultZeroes
    /\ host \in { "little", "big" }
    /\ blob \in BlobSizes
    /\ out = NoRecord

RecordNext == WriteRecord(1)

RecordSpec == RecordInit /\ [][RecordNext]_vars

(***************************************************************************)
(* ZimData under free use: two client threads, 0 and 1, call push_job,     *)
(* pop_job and filtering_finished on a ZimData of any capacity up to       *)
(* MaxThreads, in any order, any number of times up to MaxCalls calls in   *)
(* all, except that no push_job is called once a filtering_finished was    *)
(* called.                                                                 *)
(***************************************************************************)

ChannelInit ==
    /\ threads = 1
    /\ documents = 0
    /\ archive = <<>>
    /\ mainpc = "clients"
    /\ i = 0
    /\ joined = 0
    /\ pc = [t \in Threads |-> "client"]
    /\ ra = [t \in Threads |-> "client"]
    /\ queue = <<>>
    /\ max_size \in 1..MaxThreads
    /\ filter_done = FALSE
    /\ mutex = Free
    /\ data_in_queue = {}
    /\ queue_not_full = {}
    /\ file_data = [t \in Threads |-> EmptyJob]
    /\ fd = [t \in Threads |-> EmptyJob]
    /\ it = 0
    /\ curr_num = 0
    /\ index_list = <<>>
    /\ pushed = <<>>
    /\ popped = <<>>
    /\ ends = [t \in Threads |-> 0]
    /\ closes = 0
    /\ artifacts = EmptyBag
    /\ asserted = FALSE
    /\ calls = 0
    /\ zeroes = DefaultZeroes
    /\ host = "little"
    /\ blob = <<>>
    /\ out = NoRecord

(* Client t calls push_job with the job numbered by the call. *)
ClientPush(t) ==
    /\ t \in Threads
    /\ pc[t] = "client"
    /\ calls < MaxCalls
    /\ ~filter_done
    /\ \A u \in Threads : pc[u] \notin { "finish_lock", "finish_locked" }
    /\ calls' = calls + 1
    /\ file_data' = [file_data EXCEPT ![t] = FileData(calls + 1, <<calls>>)]
    /\ pc' = [pc EXCEPT ![t] = "push_lock"]
    /\ UNCHANGED <<inputVars, ioVars,
                   mainVars, ra, queue, max_size, filter_done,
                   mutex, data_in_queue, queue_not_full, fd, filterVars,
                   histVars>>

(* Client t calls pop_job. *)
ClientPop(t) ==
    /\ t \in Threads
    /\ pc[t] = "client"
    /\ calls < MaxCalls
    /\ calls' = calls + 1
    /\ pc' = [pc EXCEPT ![t] = "pop_lock"]
    /\ UNCHANGED <<inputVars, ioVars,
                   mainVars, ra, queue, max_size, filter_done,
                   mutex, data_in_queue, queue_not_full, file_data, fd,
                   filterVars, histVars>>

(* Client t calls filtering_finished. *)
ClientClose(t) ==
    /\ t \in Threads
    /\ pc[t] = "client"
    /\ calls < MaxCalls
    /\ calls' = calls + 1
    /\ pc' = [pc EXCEPT ![t] = "finish_lock"]
    /\ UNCHANGED <<inputVars, ioVars,
                   mainVars, ra, queue, max_size, filter_done,
                   mutex, data_in_queue, queue_not_full, file_data, fd,
                   filterVars, histVars>>

ChannelNext ==
    \E t \in 0..1 :
        \/ ClientPush(t)
        \/ ClientPop(t)
        \/ ClientClose(t)
        \/ PushLock(t)
        \/ PushJob(t)
        \/ PushNotify(t)
        \/ PopLock(t)
        \/ PopJob(t)
        \/ FinishLock(t)
        \/ FilteringFinished(t)
        \/ SpuriousWakeup(t)

ChannelSpec == ChannelInit /\ [][ChannelNext]_vars

(***************************************************************************)
(* Vocabulary of the properties                                            *)
(***************************************************************************)

(* The article indices of a sequence of jobs, concatenated in order. *)
RECURSIVE Ids(_)
Ids(jobs) ==
    IF jobs = <<>> THEN <<>> ELSE jobs[1].second \o Ids(Tail(jobs))

NoDuplicates(s) == \A a, b \in 1..Len(s) : s[a] = s[b] => a = b

(* The indices of the kept entries of an archive, in archive order. *)
KeptIds(a) ==
    SelectSeq([k \in 1..Len(a) |-> k - 1], LAMBDA x : Kept(a[x + 1]))

Ceil(m, d) == (m + d - 1) \div d

InPushJob(t) ==
    pc[t] \in { "push_lock", "push_locked", "push_waiting", "push_woken",
                "push_notify" }

InFilteringFinished(t) == pc[t] \in { "finish_lock", "finish_locked" }

(* All threads have been started by main. *)
AllStarted == mainpc \in { "join_filter", "join_writers", "done" }

(***************************************************************************)
(* C1: once all threads run, every writer thread eventually gets the empty *)
(* job (END) from pop_job, and no writer ever gets it more than once.      *)
(***************************************************************************)
C1_EveryWriterGetsEndOnce ==
    /\ [](\A w \in Writers : ends[w] <= 1)
    /\ AllStarted ~> (\A w \in Writers : ends[w] = 1)

(***************************************************************************)
(* C2: a run over an archive with at least one kept entry (and a batch     *)
(* size of at least 1), once its threads are started, always reaches the   *)
(* state where main has joined the filter thread and every writer thread.  *)
(***************************************************************************)
C2_RunTerminates ==
    (AllStarted /\ KeptIds(archive) # <<>> /\ documents >= 1)
        ~> (mainpc = "done")

(***************************************************************************)
(* C3: when filtering_finished sets the flag while writers are blocked in  *)
(* the wait of pop_job, that step unblocks one of them.                    *)
(***************************************************************************)
C3_CloseWakesWaiter ==
    [][(closes' # closes /\ data_in_queue # {})
          => \E w \in data_in_queue : pc'[w] = "pop_woken"]_vars

(***************************************************************************)
(* C4: the jobs popped so far followed by the jobs still queued are        *)
(* exactly the jobs pushed, in order, so no job is popped twice or lost;   *)
(* when all threads are joined, every pushed job was popped and the        *)
(* article indices popped are those pushed, none of them twice.            *)
(***************************************************************************)
C4_NoLossNoDuplication ==
    /\ popped \o queue = pushed
    /\ mainpc = "done" =>
          /\ popped = pushed
          /\ Ids(popped) = Ids(pushed)
          /\ NoDuplicates(Ids(popped))

C4_Witness ==
    /\ mainpc = "done"
    /\ threads = 2
    /\ Len(popped) = 3
    /\ Len(Ids(popped)) = 3

(***************************************************************************)
(* C5: the queue never holds more jobs than the capacity ZimData was       *)
(* constructed with, the --threads value.                                  *)
(***************************************************************************)
C5_QueueWithinCapacity ==
    /\ Len(queue) <= max_size
    /\ max_size \in { 0, threads }

C5_Witness ==
    /\ max_size = 2
    /\ Len(queue) = max_size
    /\ pc[FilterThread] = "push_waiting"
    /\ \E w \in Writers : pc[w] = "pop_lock"

(***************************************************************************)
(* C6: jobs are popped in the order they were pushed: of two popped jobs,  *)
(* the one popped earlier has the smaller file number, whichever threads   *)
(* popped them.                                                            *)
(***************************************************************************)
C6_PoppedInPushOrder ==
    \A a, b \in 1..Len(popped) :
        a < b => popped[a].first < popped[b].first

C6_Witness ==
    /\ threads = 2
    /\ Len(popped) = 3
    /\ pc[1] = "check" /\ fd[1] = popped[3]
    /\ pc[2] = "check" /\ fd[2] = popped[2]

(***************************************************************************)
(* C7: the filter thread calls filtering_finished exactly once, after the  *)
(* push of every kept index (the rest included) has completed, and is in   *)
(* no push_job once filtering_finished was called.                         *)
(***************************************************************************)
C7_CloseOnceAfterLastPush ==
    /\ closes <= 1
    /\ pc[FilterThread] = "done" => closes = 1
    /\ closes = 1 <=> filter_done
    /\ (InFilteringFinished(FilterThread) \/ filter_done) =>
          /\ ~InPushJob(FilterThread)
          /\ Ids(pushed) = KeptIds(archive)
          /\ pc[FilterThread] \in
                { "finish_lock", "finish_locked", "report", "done" }

C7_Witness ==
    /\ pc[FilterThread] = "done"
    /\ closes = 1
    /\ Len(pushed) = 2
    /\ Len(pushed[2].second) < documents

(***************************************************************************)
(* C8: a call of filtering_finished that finds filter_done already set     *)
(* leaves the queue and the flag as they are, and a pop_job that evaluates *)
(* its wait with the queue empty and filter_done set returns the empty job *)
(* (END) in that step, without entering the wait, however often it is      *)
(* called.                                                                 *)
(***************************************************************************)
C8_IdempotentShutdown ==
    [][/\ (closes' # closes /\ filter_done) =>
             (queue' = queue /\ filter_done' = filter_done)
       /\ \A t \in Threads :
             (pc[t] = "pop_locked" /\ pc'[t] # "pop_locked"
                 /\ filter_done /\ queue = <<>>) =>
                (/\ pc'[t] = ra[t]
                 /\ fd'[t] = EmptyJob
                 /\ ends'[t] = ends[t] + 1
                 /\ t \notin data_in_queue')]_vars

C8_Witness ==
    /\ closes = 2
    /\ queue = <<>>
    /\ Len(popped) = 1
    /\ \E t \in Threads : ends[t] = 2 /\ pc[t] = "client"

(***************************************************************************)
(* C9: the file numbers of the pushed jobs, in push order, are 1, 2, ...,  *)
(* K, the rest pushed after the loop included.                             *)
(***************************************************************************)
C9_NumbersAreOneToK ==
    \A k \in 1..Len(pushed) : pushed[k].first = k

C9_Witness ==
    /\ pc[FilterThread] = "done"
    /\ Len(pushed) = 2
    /\ Len(pushed[1].second) = 2
    /\ Len(pushed[2].second) = 1

(***************************************************************************)
(* C10: with M >= 1 kept entries and documents = D >= 1, when the filter   *)
(* thread closes the channel it has pushed ceil(M / D) jobs, each but the  *)
(* last with D indices, the last with 1..D, and together they hold every   *)
(* kept index.                                                             *)
(***************************************************************************)
C10_BatchSizes ==
    (filter_done /\ documents >= 1 /\ KeptIds(archive) # <<>>) =>
        /\ Len(pushed) = Ceil(Len(KeptIds(archive)), documents)
        /\ \A k \in 1..(Len(pushed) - 1) : Len(pushed[k].second) = documents
        /\ Len(pushed[Len(pushed)].second) \in 1..documents
        /\ Len(Ids(pushed)) = Len(KeptIds(archive))

C10_Witness ==
    /\ filter_done
    /\ documents = 2
    /\ Len(KeptIds(archive)) = 3
    /\ Len(pushed) = 2

(***************************************************************************)
(* C11: the id lists of the pushed batches, concatenated in the order of   *)
(* their sequence numbers, are at every moment a prefix of, and once the   *)
(* producer has closed the channel equal to, the indices of the archive's  *)
(* entries in archive order restricted to the entries that are in the      *)
(* content namespace, are no redirect, are not deleted and whose title     *)
(* does not match the pattern.                                             *)
(***************************************************************************)
ShouldKeep(e) ==
    e.namespace = "A" /\ ~e.redirect /\ ~e.deleted /\ ~e.matches

Restricted(a) ==
    SelectSeq([k \in 1..Len(a) |-> k - 1], LAMBDA x : ShouldKeep(a[x + 1]))

C11_PushedIsKeptInOrder ==
    /\ \A k \in 1..Len(pushed) : pushed[k].first = k
    /\ Len(Ids(pushed)) <= Len(Restricted(archive))
    /\ Ids(pushed) = SubSeq(Restricted(archive), 1, Len(Ids(pushed)))
    /\ filter_done => Ids(pushed) = Restricted(archive)

C11_Witness ==
    /\ filter_done
    /\ Len(archive) = 3
    /\ ShouldKeep(archive[1])
    /\ archive[2].matches
    /\ ShouldKeep(archive[3])
    /\ Len(pushed) = 1
    /\ pushed[1].second = <<0, 2>>

(***************************************************************************)
(* C12: for every sequence number s >= 1 and every padding width w, also   *)
(* when s has more decimal digits than w, the writer's iteration on the    *)
(* job numbered s does not fail and creates the file whose name is the     *)
(* decimal form of s preceded by max(0, w - digits(s)) zeros and followed  *)
(* by the extension.                                                       *)
(***************************************************************************)
RECURSIVE NumDigits(_)
NumDigits(s) == IF s < 10 THEN 1 ELSE 1 + NumDigits(s \div 10)

PaddedName(s, w) ==
    LET pad == IF w > NumDigits(s) THEN w - NumDigits(s) ELSE 0
    IN  [k \in 1..pad |-> "0"] \o to_string(s) \o Extension

C12_NameNeverFails ==
    pc[1] # "check" =>
        /\ pc[1] # "terminated"
        /\ artifacts = SetToBag({ PaddedName(popped[1].first, zeroes) })

(***************************************************************************)
(* C13: the 4-byte length prefix of an appended record, read back as a     *)
(* big-endian unsigned 32-bit integer, equals the number of content bytes  *)
(* written after it, whatever the size of the content.                     *)
(***************************************************************************)
ZeroExtend(v, n) == [k \in 1..(n - Len(v)) |-> 0] \o v

C13_PrefixIsContentLength ==
    out # NoRecord =>
        /\ Len(out.prefix) = Uint32Bytes
        /\ ZeroExtend(out.prefix, SizeBytes) = out.length

(***************************************************************************)
(* C14: while main has not passed the opening of the archive and the       *)
(* creation of the output directory, and for ever after one of the two     *)
(* failed, no thread has been started; and main waits for (and has joined) *)
(* the writer threads only when the filter thread has ended.               *)
(***************************************************************************)
C14_NoThreadsOnStartupFailure ==
    /\ mainpc \in { "open", "construct", "start_filter", "failed" }
           => \A t \in Threads : pc[t] = "not_started"
    /\ mainpc \in { "join_writers", "done" } => pc[FilterThread] = "done"
    /\ joined > 0 => pc[FilterThread] = "done"

C14_Witness ==
    /\ mainpc = "failed"
    /\ max_size = threads
    /\ \A t \in Threads : pc[t] = "not_started"

(***************************************************************************)
(* C15: filter_done is false when the channel has been constructed, and no *)
(* step of any caller of push_job, pop_job or filtering_finished, in any   *)
(* order and number of calls, takes it from true back to false.            *)
(***************************************************************************)
C15_ClosedIsMonotonic ==
    /\ ~filter_done
    /\ [][filter_done => filter_done']_vars

C15_Witness ==
    /\ filter_done
    /\ closes = 1
    /\ queue # <<>>
    /\ \E t \in Threads : ends[t] >= 1

(***************************************************************************)
(* C16: a pop_job that returns the empty job (END) while threads are       *)
(* blocked in the wait of data_in_queue unblocks exactly one of them in    *)
(* that step; and once one writer has got END, every writer, blocked in    *)
(* pop_job or calling it later, eventually gets END.                       *)
(***************************************************************************)
C16_EndRelay ==
    /\ [][\A t \in Threads :
             (ends'[t] = ends[t] + 1 /\ data_in_queue # {}) =>
                \E w \in data_in_queue :
                   /\ data_in_queue' = data_in_queue \ { w }
                   /\ pc[w] = "pop_waiting"
                   /\ pc'[w] = "pop_woken"]_vars
    /\ (\E w \in Writers : ends[w] >= 1) ~> (\A w \in Writers : ends[w] >= 1)

C16_Witness ==
    /\ threads = 2
    /\ pushed = <<>>
    /\ data_in_queue = {}
    /\ \E w, v \in Writers : ends[w] = 1 /\ pc[v] = "pop_woken" /\ ends[v] = 0

(***************************************************************************)
(* C17: a writer has got the empty job (END) from pop_job, or has left its *)
(* loop, only when filter_done is set, the queue is empty and every pushed *)
(* job has been popped; the threads in the wait of data_in_queue are       *)
(* suspended inside pop_job; and a writer that evaluates the wait with the *)
(* queue empty and filter_done not set blocks in it.                       *)
(***************************************************************************)
C17_EndOnlyWhenClosedAndEmpty ==
    /\ [](/\ \A w \in Writers :
               (ends[w] >= 1 \/ pc[w] = "done") =>
                  (filter_done /\ queue = <<>> /\ popped = pushed)
          /\ \A t \in data_in_queue : pc[t] = "pop_waiting")
    /\ [][\A w \in Writers :
             (pc[w] = "pop_locked" /\ pc'[w] # "pop_locked"
                 /\ queue = <<>> /\ ~filter_done) =>
                (/\ pc'[w] = "pop_waiting"
                 /\ w \in data_in_queue'
                 /\ ends'[w] = ends[w])]_vars

C17_Witness ==
    /\ Len(popped) = 2
    /\ \E w \in Writers :
          pc[w] = "done" /\ ends[w] = 1 /\ popped[2].second # <<>>

(***************************************************************************)
(* C18: the last else branch of pop_job, "should never get here", is never *)
(* taken: no thread runs into its assert(0), spurious wake-ups included.   *)
(***************************************************************************)
C18_AssertUnreachable ==
    /\ ~asserted
    /\ \A t \in Threads : pc[t] # "aborted"

C18_Witness ==
    /\ threads = 2
    /\ ~asserted
    /\ Len(popped) >= 1
    /\ \A w \in Writers : ends[w] = 1

(***************************************************************************)
(* C19: no pushed job has an empty index list, whatever --documents (0     *)
(* included) and the archive are, so the empty list only comes from the    *)
(* closed-and-empty branch of pop_job: a writer has left its loop only     *)
(* when pop_job returned END to it, once, and a writer that got END is     *)
(* about to leave its loop or has left it.                                 *)
(***************************************************************************)
C19_EndIsUnambiguous ==
    /\ \A k \in 1..Len(pushed) : pushed[k].second # <<>>
    /\ \A w \in Writers :
          /\ pc[w] = "done" => ends[w] = 1
          /\ (pc[w] = "check" /\ fd[w].second = <<>>) => ends[w] = 1
          /\ ends[w] >= 1 =>
                \/ pc[w] = "done"
                \/ pc[w] = "check" /\ fd[w] = EmptyJob /\ ends[w] = 1

C19_Witness ==
    /\ documents = 0
    /\ Len(pushed) = 1
    /\ Len(pushed[1].second) = 3
    /\ \E w \in Writers : pc[w] = "done"

(***************************************************************************)
(* C20: no output file is created twice and no two writers hold jobs of    *)
(* the same number; every file created belongs to a popped job, every      *)
(* popped job is either held by the one writer that popped it or has its   *)
(* one file, and when main has joined all threads every pushed job has     *)
(* exactly one file.                                                       *)
(***************************************************************************)
Holding == { w \in Writers : fd[w].second # <<>> }

C20_OneArtifactPerBatch ==
    /\ \A name \in BagToSet(artifacts) :
          /\ CopiesIn(name, artifacts) = 1
          /\ \E k \in 1..Len(popped) :
                name = FileName(popped[k].first, zeroes)
    /\ \A w, v \in Holding : fd[w].first = fd[v].first => w = v
    /\ \A w \in Holding :
          ~BagIn(FileName(fd[w].first, zeroes), artifacts)
    /\ BagCardinality(artifacts) + Cardinality(Holding) = Len(popped)
    /\ mainpc = "done" =>
          /\ BagCardinality(artifacts) = Len(pushed)
          /\ \A k \in 1..Len(pushed) :
                CopiesIn(FileName(pushed[k].first, zeroes), artifacts) = 1

C20_Witness ==
    /\ threads = 2
    /\ Holding = { 1, 2 }
    /\ artifacts # EmptyBag

====
